---- MODULE Spec2Model ----
(***************************************************************************)
(* hello.py: a script that prints a fixed greeting, reads the host's local *)
(* wall clock once with datetime.now(), formats the reading with           *)
(* strftime("%Y-%m-%d %H:%M:%S") and prints it on a second line.           *)
(*                                                                         *)
(* Text is modelled as sequences of one-character strings, so that what    *)
(* print and strftime produce can be inspected character by character.     *)
(* The host's local wall clock is a day number (days since 1970-01-01)     *)
(* and a second of that day; the program does not own it: it ticks, and    *)
(* the host may set it (an administrator, NTP, a daylight-saving switch).  *)
(***************************************************************************)
EXTENDS Integers, Sequences, FiniteSets, TLC

(***************************************************************************)
(* Bounds of the model.                                                    *)
(***************************************************************************)
\* Invocations of the program in one behaviour ("running it twice").
MaxRuns == 2
\* Seconds the clock may run on past each of the instants in Epochs.
MaxDrift == 1
\* The "small tolerance (a few seconds)" of the timestamp, in seconds.
Tolerance == 2

(***************************************************************************)
(* Python's None, and a value that is present.                             *)
(***************************************************************************)
None == <<>>
Some(v) == <<v>>

(***************************************************************************)
(* The host's local wall clock.                                            *)
(***************************************************************************)
SecondsPerDay == 24 * 60 * 60

Instant(day, sec) == [day |-> day, sec |-> sec]

\* The instants the clock can be set to: 1999-12-31 23:59:59 (a second
\* before the year 2000), 2024-02-29 12:59:59 (a leap day, a second before
\* 13:00) and 2024-03-05 09:07:41.
Epochs ==
    { Instant(10956, 23 * 3600 + 59 * 60 + 59),
      Instant(19782, 12 * 3600 + 59 * 60 + 59),
      Instant(19787, 9 * 3600 + 7 * 60 + 41) }

\* The instant n seconds after c.
Advance(c, n) ==
    LET s == c.sec + n
    IN  Instant(c.day + (s \div SecondsPerDay), s % SecondsPerDay)

ClockValues == { Advance(e, k) : e \in Epochs, k \in 0..MaxDrift }

\* c1 is not later than c2.
NotLater(c1, c2) ==
    \/ c1.day < c2.day
    \/ c1.day = c2.day /\ c1.sec <= c2.sec

\* The two instants are at most n seconds apart (n less than a day).
Within(c1, c2, n) ==
    \/ c1.day = c2.day     /\ c1.sec - c2.sec <= n /\ c2.sec - c1.sec <= n
    \/ c1.day = c2.day + 1 /\ c1.sec + SecondsPerDay - c2.sec <= n
    \/ c2.day = c1.day + 1 /\ c2.sec + SecondsPerDay - c1.sec <= n

(***************************************************************************)
(* datetime.now(): the clock's value as a naive local calendar date-time.  *)
(* The date is the proleptic Gregorian date of the day number.             *)
(***************************************************************************)
CivilFromDays(z0) ==
    LET z   == z0 + 719468
        era == z \div 146097
        doe == z - era * 146097
        yoe == (doe - (doe \div 1460) + (doe \div 36524) - (doe \div 146096)) \div 365
        doy == doe - (365 * yoe + (yoe \div 4) - (yoe \div 100))
        mp  == (5 * doy + 2) \div 153
        d   == doy - ((153 * mp + 2) \div 5) + 1
        m   == IF mp < 10 THEN mp + 3 ELSE mp - 9
        y   == yoe + era * 400 + (IF m <= 2 THEN 1 ELSE 0)
    IN  [year |-> y, month |-> m, day |-> d]

DatetimeNow(c) ==
    LET date == CivilFromDays(c.day)
    IN  [year   |-> date.year,
         month  |-> date.month,
         day    |-> date.day,
         hour   |-> c.sec \div 3600,
         minute |-> (c.sec % 3600) \div 60,
         second |-> c.sec % 60]

(***************************************************************************)
(* Text.                                                                   *)
(***************************************************************************)
Digits == <<"0", "1", "2", "3", "4", "5", "6", "7", "8", "9">>

DigitChar(d) == Digits[d + 1]

\* Variant of Pad2: no leading zero (as "%-m" or str(n) would give).
Pad2Unpadded(n) ==
    IF n < 10 THEN <<DigitChar(n)>> ELSE <<DigitChar((n \div 10) % 10), DigitChar(n % 10)>>

\* n as exactly two decimal digits (n in 0..99).
Pad2(n) == <<DigitChar((n \div 10) % 10), DigitChar(n % 10)>>

\* Variant of Pad4: the year without its century (as "%y" would give).
Pad4WithoutCentury(n) == Pad2(n % 100)

\* n as exactly four decimal digits (n in 0..9999).
Pad4(n) == Pad2(n \div 100) \o Pad2(n % 100)

\* Variant of Greeting: the final exclamation mark is missing.
GreetingWithoutBang ==
    <<"H", "e", "l", "l", "o", "!", " ", "W", "e", "l", "c", "o", "m", "e",
      " ", "t", "o", " ", "P", "y", "t", "h", "o", "n">>

\* The argument of the first print.
Greeting ==
    <<"H", "e", "l", "l", "o", "!", " ", "W", "e", "l", "c", "o", "m", "e",
      " ", "t", "o", " ", "P", "y", "t", "h", "o", "n", "!">>

\* The literal part of the f-string of the second print.
DatePrefix ==
    <<"T", "o", "d", "a", "y", "'", "s", " ", "d", "a", "t", "e", " ",
      "a", "n", "d", " ", "t", "i", "m", "e", ":", " ">>

\* Variant of DateFormat: the hour on a 12-hour clock (%I for %H).
DateFormat12Hour ==
    <<"%", "Y", "-", "%", "m", "-", "%", "d", " ",
      "%", "I", ":", "%", "M", ":", "%", "S">>

\* The format given to strftime.
DateFormat ==
    <<"%", "Y", "-", "%", "m", "-", "%", "d", " ",
      "%", "H", ":", "%", "M", ":", "%", "S">>

\* Variant of Directive: %m and %M taken for each other.
DirectiveMonthForMinute(dt, c) ==
    CASE c = "Y" -> Pad4(dt.year)
      [] c = "m" -> Pad2(dt.minute)
      [] c = "d" -> Pad2(dt.day)
      [] c = "H" -> Pad2(dt.hour)
      [] c = "I" -> Pad2(IF dt.hour % 12 = 0 THEN 12 ELSE dt.hour % 12)
      [] c = "M" -> Pad2(dt.month)
      [] c = "S" -> Pad2(dt.second)
      [] c = "%" -> <<"%">>
      [] OTHER   -> <<"%", c>>

\* What one strftime directive stands for.
Directive(dt, c) ==
    CASE c = "Y" -> Pad4(dt.year)
      [] c = "m" -> Pad2(dt.month)
      [] c = "d" -> Pad2(dt.day)
      [] c = "H" -> Pad2(dt.hour)
      [] c = "I" -> Pad2(IF dt.hour % 12 = 0 THEN 12 ELSE dt.hour % 12)
      [] c = "M" -> Pad2(dt.minute)
      [] c = "S" -> Pad2(dt.second)
      [] c = "%" -> <<"%">>
      [] OTHER   -> <<"%", c>>

\* dt.strftime(fmt): directives replaced, every other character copied.
RECURSIVE Strftime(_, _)
Strftime(dt, fmt) ==
    IF fmt = <<>> THEN <<>>
    ELSE IF Head(fmt) = "%" /\ Len(fmt) >= 2
         THEN Directive(dt, fmt[2]) \o Strftime(dt, SubSeq(fmt, 3, Len(fmt)))
         ELSE <<Head(fmt)>> \o Strftime(dt, Tail(fmt))

\* Variant of print: no newline (as print(text, end="") would give).
printWithoutNewline(stream, text) == stream \o text

\* print(text) on a stream: the text, then a newline.
print(stream, text) == stream \o text \o <<"\n">>

\* The first line of the traceback the interpreter writes for an exception
\* nothing caught.
Traceback ==
    <<"T", "r", "a", "c", "e", "b", "a", "c", "k", " ", "(", "m", "o", "s", "t",
      " ", "r", "e", "c", "e", "n", "t", " ", "c", "a", "l", "l", " ",
      "l", "a", "s", "t", ")", ":">>

(***************************************************************************)
(* State.                                                                  *)
(***************************************************************************)
VARIABLES
    clock,        \* the host's local wall clock
    files,        \* the paths the host's file system holds
    environ,      \* the environment variables that are set
    sockets,      \* the network connections that were opened
    pc,           \* where the running process is
    stdout,       \* what the running process has written to standard output
    stderr,       \* what was written to its standard error
    now,          \* the value of datetime.now(), while it is alive
    current_date, \* the local variable of main
    exit_status,  \* the process's exit status, once it has exited
    run,          \* which invocation this is
    reads,        \* history: clock reads of this invocation
    entry_clock,  \* history: the clock when this invocation started
    read_clock,   \* history: the clock when this invocation read it
    set_back,     \* history: the clock was set back since the last read
    back_at_read, \* history: set_back, as this invocation's read found it
    prev_stdout   \* history: standard output of the previous invocation

host == <<files, environ, sockets>>
process == <<pc, stdout, stderr, now, current_date, exit_status>>
history == <<run, reads, entry_clock, read_clock, set_back, back_at_read, prev_stdout>>
vars == <<clock, host, process, history>>

\* A process that has executed nothing yet.
Fresh ==
    /\ pc = "start"
    /\ stdout = <<>>
    /\ stderr = <<>>
    /\ now = None
    /\ current_date = None
    /\ exit_status = None

Init ==
    /\ clock \in Epochs
    /\ files = {}
    /\ environ = {}
    /\ sockets = {}
    /\ Fresh
    /\ run = 1
    /\ reads = 0
    /\ entry_clock = clock
    /\ read_clock = None
    /\ set_back = FALSE
    /\ back_at_read = FALSE
    /\ prev_stdout = None

(***************************************************************************)
(* The program, one action per step of hello.py.                           *)
(***************************************************************************)
\* if __name__ == "__main__": main()
CallMain ==
    /\ pc = "start"
    /\ pc' = "greet"
    /\ UNCHANGED <<clock, host, stdout, stderr, now, current_date, exit_status, history>>

\* Variant of PrintGreeting: it also appends to a log file.
PrintGreetingAndLog ==
    /\ pc = "greet"
    /\ stdout' = print(stdout, Greeting)
    /\ files' = files \cup {"hello.log"}
    /\ pc' = "read"
    /\ UNCHANGED <<clock, environ, sockets, stderr, now, current_date, exit_status, history>>

\* Variant of PrintGreeting: the greeting is never written.
PrintGreetingLost ==
    /\ pc = "greet"
    /\ pc' = "read"
    /\ UNCHANGED <<clock, host, stdout, stderr, now, current_date, exit_status, history>>

\* print("Hello! Welcome to Python!")
PrintGreeting ==
    /\ pc = "greet"
    /\ stdout' = print(stdout, Greeting)
    /\ pc' = "read"
    /\ UNCHANGED <<clock, host, stderr, now, current_date, exit_status, history>>

\* datetime.now() returns the clock's value.
ReadClock ==
    /\ pc = "read"
    /\ now' = Some(DatetimeNow(clock))
    /\ pc' = "format"
    /\ reads' = reads + 1
    /\ read_clock' = Some(clock)
    /\ set_back' = FALSE
    /\ back_at_read' = set_back
    /\ UNCHANGED <<clock, host, stdout, stderr, current_date, exit_status,
                   run, entry_clock, prev_stdout>>

\* datetime.now() raises: the host cannot give the time. Nothing in main
\* or around its call catches the exception.
ReadClockRaises ==
    /\ pc = "read"
    /\ pc' = "raised"
    /\ reads' = reads + 1
    /\ UNCHANGED <<clock, host, stdout, stderr, now, current_date, exit_status,
                   run, entry_clock, read_clock, set_back, back_at_read, prev_stdout>>

\* current_date = <the datetime>.strftime("%Y-%m-%d %H:%M:%S"); the
\* datetime was a temporary and is gone after the call.
FormatDate ==
    /\ pc = "format"
    /\ current_date' = Strftime(now[1], DateFormat)
    /\ now' = None
    /\ pc' = "print"
    /\ UNCHANGED <<clock, host, stdout, stderr, exit_status, history>>

\* Variant of PrintDate: it reads the clock again instead of using
\* current_date.
PrintDateReadsAgain ==
    /\ pc = "print"
    /\ stdout' = print(stdout, DatePrefix \o Strftime(DatetimeNow(clock), DateFormat))
    /\ reads' = reads + 1
    /\ pc' = "return"
    /\ UNCHANGED <<clock, host, stderr, now, current_date, exit_status,
                   run, entry_clock, read_clock, set_back, back_at_read, prev_stdout>>

\* print(f"Today's date and time: {current_date}")
PrintDate ==
    /\ pc = "print"
    /\ stdout' = print(stdout, DatePrefix \o current_date)
    /\ pc' = "return"
    /\ UNCHANGED <<clock, host, stderr, now, current_date, exit_status, history>>

\* main returned and the module's code is at its end: the interpreter
\* exits with status 0.
Exit ==
    /\ pc = "return"
    /\ exit_status' = Some(0)
    /\ pc' = "exited"
    /\ UNCHANGED <<clock, host, stdout, stderr, now, current_date, history>>

\* Variant of Die: the exception is swallowed and the status is 0.
DieSilently ==
    /\ pc = "raised"
    /\ exit_status' = Some(0)
    /\ pc' = "exited"
    /\ UNCHANGED <<clock, host, stdout, stderr, now, current_date, history>>

\* The exception left main and the module: the interpreter writes the
\* traceback to standard error and exits with status 1.
Die ==
    /\ pc = "raised"
    /\ stderr' = print(stderr, Traceback)
    /\ exit_status' = Some(1)
    /\ pc' = "exited"
    /\ UNCHANGED <<clock, host, stdout, now, current_date, history>>

Step ==
    \/ CallMain
    \/ PrintGreeting
    \/ ReadClock
    \/ ReadClockRaises
    \/ FormatDate
    \/ PrintDate
    \/ Exit
    \/ Die

(***************************************************************************)
(* The host.                                                               *)
(***************************************************************************)
\* The program is run again, in a new process.
Rerun ==
    /\ pc = "exited"
    /\ run < MaxRuns
    /\ pc' = "start"
    /\ stdout' = <<>>
    /\ stderr' = <<>>
    /\ now' = None
    /\ current_date' = None
    /\ exit_status' = None
    /\ run' = run + 1
    /\ reads' = 0
    /\ entry_clock' = clock
    /\ read_clock' = None
    /\ back_at_read' = FALSE
    /\ prev_stdout' = Some(stdout)
    /\ UNCHANGED <<clock, host, set_back>>

\* A second passes.
Tick ==
    /\ Advance(clock, 1) \in ClockValues
    /\ clock' = Advance(clock, 1)
    /\ UNCHANGED <<host, process, history>>

\* The clock is set: by an administrator, by NTP, by a daylight-saving
\* switch of the local time.
SetClock ==
    /\ \E c \in Epochs :
          /\ c # clock
          /\ clock' = c
          /\ set_back' = (set_back \/ ~NotLater(clock, c))
    /\ UNCHANGED <<host, process, run, reads, entry_clock, read_clock, back_at_read,
                   prev_stdout>>

Next ==
    \/ Step
    \/ Rerun
    \/ Tick
    \/ SetClock

Spec == Init /\ [][Next]_vars

\* The interpreter keeps executing the process until it has exited.
FairSpec == Spec /\ WF_vars(Step)

(***************************************************************************)
(* Reading standard output back: its lines, and the timestamp of the       *)
(* second line parsed to an instant.                                       *)
(***************************************************************************)
\* The newline-terminated lines of a stream, without their newlines.
RECURSIVE Lines(_)
Lines(s) ==
    IF \A i \in 1..Len(s) : s[i] # "\n" THEN <<>>
    ELSE LET i == CHOOSE k \in 1..Len(s) :
                      s[k] = "\n" /\ \A j \in 1..(k - 1) : s[j] # "\n"
         IN  <<SubSeq(s, 1, i - 1)>> \o Lines(SubSeq(s, i + 1, Len(s)))

\* What follows the last newline of a stream.
RECURSIVE Unterminated(_)
Unterminated(s) ==
    IF \A i \in 1..Len(s) : s[i] # "\n" THEN s
    ELSE LET i == CHOOSE k \in 1..Len(s) : s[k] = "\n"
         IN  Unterminated(SubSeq(s, i + 1, Len(s)))

HasPrefix(s, p) == Len(s) >= Len(p) /\ SubSeq(s, 1, Len(p)) = p

IsDigit(c) == \E i \in 1..10 : Digits[i] = c

DigitValue(c) == (CHOOSE i \in 1..10 : Digits[i] = c) - 1

\* The number a string of decimal digits denotes.
RECURSIVE Number(_)
Number(s) ==
    IF s = <<>> THEN 0
    ELSE 10 * Number(SubSeq(s, 1, Len(s) - 1)) + DigitValue(s[Len(s)])

\* s matches \d{4}-\d{2}-\d{2} \d{2}:\d{2}:\d{2}
MatchesPattern(s) ==
    /\ Len(s) = 19
    /\ \A i \in {1, 2, 3, 4, 6, 7, 9, 10, 12, 13, 15, 16, 18, 19} : IsDigit(s[i])
    /\ s[5] = "-" /\ s[8] = "-"
    /\ s[11] = " "
    /\ s[14] = ":" /\ s[17] = ":"

\* The fields of a string that matches the pattern.
Fields(s) ==
    [year   |-> Number(SubSeq(s, 1, 4)),
     month  |-> Number(SubSeq(s, 6, 7)),
     day    |-> Number(SubSeq(s, 9, 10)),
     hour   |-> Number(SubSeq(s, 12, 13)),
     minute |-> Number(SubSeq(s, 15, 16)),
     second |-> Number(SubSeq(s, 18, 19))]

\* The day number of a proleptic Gregorian date.
DaysFromCivil(y0, m, d) ==
    LET y   == IF m <= 2 THEN y0 - 1 ELSE y0
        era == y \div 400
        yoe == y - era * 400
        doy == ((153 * (IF m > 2 THEN m - 3 ELSE m + 9) + 2) \div 5) + d - 1
        doe == yoe * 365 + (yoe \div 4) - (yoe \div 100) + doy
    IN  era * 146097 + doe - 719468

\* The instant a calendar date-time names.
InstantOf(f) ==
    Instant(DaysFromCivil(f.year, f.month, f.day),
            f.hour * 3600 + f.minute * 60 + f.second)

ExpectedGreeting ==
    <<"H", "e", "l", "l", "o", "!", " ", "W", "e", "l", "c", "o", "m", "e",
      " ", "t", "o", " ", "P", "y", "t", "h", "o", "n", "!">>

ExpectedPrefix ==
    <<"T", "o", "d", "a", "y", "'", "s", " ", "d", "a", "t", "e", " ",
      "a", "n", "d", " ", "t", "i", "m", "e", ":", " ">>

\* What follows the prefix on the second line of a stream, when the stream
\* has a second line and it starts with the prefix.
Timestamp(out) ==
    LET ls == Lines(out)
    IN  IF Len(ls) >= 2 /\ HasPrefix(ls[2], ExpectedPrefix)
        THEN Some(SubSeq(ls[2], Len(ExpectedPrefix) + 1, Len(ls[2])))
        ELSE None

\* The instant the second line of a stream reports, when it reports one.
Reported(out) ==
    LET t == Timestamp(out)
    IN  IF t # None /\ MatchesPattern(t[1]) THEN Some(InstantOf(Fields(t[1])))
        ELSE None

\* This invocation's clock read succeeded / failed.
ReadSucceeded == reads >= 1 /\ read_clock # None
ReadFailed == reads >= 1 /\ read_clock = None

(***************************************************************************)
(* The properties.                                                         *)
(***************************************************************************)

\* C1: whenever anything has been written to standard output, it starts
\* with the line "Hello! Welcome to Python!", whatever the clock reads, and
\* once the first print has run something has been written.
C1_FirstLineIsGreeting ==
    /\ stdout # <<>> => HasPrefix(stdout, ExpectedGreeting \o <<"\n">>)
    /\ pc \notin {"start", "greet"} => stdout # <<>>

\* The greeting stands while the clock has moved away from where the
\* second invocation found it.
C1_Witness ==
    /\ run = 2
    /\ Lines(stdout) # <<>>
    /\ Lines(stdout)[1] = ExpectedGreeting
    /\ clock.day # entry_clock.day

\* C2: the second line is "Today's date and time: " followed by a string
\* that matches \d{4}-\d{2}-\d{2} \d{2}:\d{2}:\d{2} and whose six numbers
\* are the year, month, day, hour (0..23), minute and second of the reading.
C2_SecondLineFormat ==
    Len(Lines(stdout)) >= 2 =>
        LET t == Timestamp(stdout)
        IN  /\ t # None
            /\ MatchesPattern(t[1])
            /\ ReadSucceeded
            /\ Fields(t[1]) = DatetimeNow(read_clock[1])

\* The reading 2000-01-01 00:00:00 has been printed.
C2_Witness ==
    /\ Len(Lines(stdout)) = 2
    /\ read_clock = Some(Instant(10957, 0))
    /\ Timestamp(stdout) # None

\* C3: every invocation terminates, and one whose clock read succeeded has
\* exited with status 0 and exactly two lines on standard output, each
\* ended by a newline.
C3_TerminatesWithTwoLines ==
    /\ [](pc = "exited" /\ ReadSucceeded =>
            /\ exit_status = Some(0)
            /\ Len(Lines(stdout)) = 2
            /\ Unterminated(stdout) = <<>>)
    /\ []<>(pc = "exited")

\* A second invocation has exited normally.
C3_Witness ==
    /\ run = 2
    /\ pc = "exited"
    /\ ReadSucceeded
    /\ exit_status = Some(0)
    /\ Len(Lines(stdout)) = 2

\* C4, as stated: of two invocations in succession that printed a
\* timestamp, the second's is not earlier than the first's.
C4_Original ==
    (/\ prev_stdout # None
     /\ Reported(prev_stdout[1]) # None
     /\ Reported(stdout) # None)
    => NotLater(Reported(prev_stdout[1])[1], Reported(stdout)[1])

\* C4, amended: of two invocations in succession that printed a timestamp,
\* the second's is not earlier than the first's, provided the clock was not
\* set back between the first invocation's read and the second's.
C4_NonDecreasingUnlessSetBack ==
    (/\ prev_stdout # None
     /\ Reported(prev_stdout[1]) # None
     /\ Reported(stdout) # None
     /\ ~back_at_read)
    => NotLater(Reported(prev_stdout[1])[1], Reported(stdout)[1])

\* Two invocations in succession printed different timestamps, and the
\* clock was not set back between their reads.
C4_Witness ==
    /\ prev_stdout # None
    /\ Reported(prev_stdout[1]) # None
    /\ Reported(stdout) # None
    /\ ~back_at_read
    /\ Reported(prev_stdout[1]) # Reported(stdout)

\* C5, as stated: the printed timestamp, parsed back, is within the
\* tolerance of the clock's value when the invocation started.
C5_Original ==
    Reported(stdout) # None => Within(Reported(stdout)[1], entry_clock, Tolerance)

\* C5, amended: the second line reports an instant, and that instant is
\* within the tolerance of the clock's value when the invocation started
\* whenever the clock itself, at the read, was within the tolerance of it.
C5_WithinToleranceIfClockIs ==
    Len(Lines(stdout)) >= 2 =>
        /\ Reported(stdout) # None
        /\ ReadSucceeded
        /\ Within(read_clock[1], entry_clock, Tolerance)
              => Within(Reported(stdout)[1], entry_clock, Tolerance)

\* The clock ran on between the start and the read, by no more than the
\* tolerance, and the timestamp was printed.
C5_Witness ==
    /\ Reported(stdout) # None
    /\ ReadSucceeded
    /\ read_clock[1] # entry_clock
    /\ Within(read_clock[1], entry_clock, Tolerance)

\* Standard output of the scenario.
ScenarioOutput ==
    <<"H", "e", "l", "l", "o", "!", " ", "W", "e", "l", "c", "o", "m", "e",
      " ", "t", "o", " ", "P", "y", "t", "h", "o", "n", "!", "\n",
      "T", "o", "d", "a", "y", "'", "s", " ", "d", "a", "t", "e", " ",
      "a", "n", "d", " ", "t", "i", "m", "e", ":", " ",
      "2", "0", "2", "4", "-", "0", "3", "-", "0", "5", " ",
      "0", "9", ":", "0", "7", ":", "4", "2", "\n">>

\* C6: an invocation that read the clock at 2024-03-05 09:07:42 and
\* returned from main has written exactly the scenario's two lines.
C6_Scenario ==
    (/\ pc \in {"return", "exited"}
     /\ read_clock = Some(Instant(19787, 9 * 3600 + 7 * 60 + 42)))
    => stdout = ScenarioOutput

\* The scenario has run to its end.
C6_Witness ==
    /\ pc = "exited"
    /\ entry_clock = Instant(19787, 9 * 3600 + 7 * 60 + 42)
    /\ read_clock = Some(entry_clock)
    /\ stdout = ScenarioOutput

\* C7: once the clock read has failed, the process only dies: the clock was
\* read once, nothing was formatted, standard output has no more than the
\* line it had, and the exit status, once there is one, is not 0.
C7_FailurePropagates ==
    ReadFailed =>
        /\ pc \in {"raised", "exited"}
        /\ reads = 1
        /\ now = None
        /\ current_date = None
        /\ Len(Lines(stdout)) <= 1
        /\ Unterminated(stdout) = <<>>
        /\ pc = "exited" => exit_status # None /\ exit_status # Some(0)

\* An invocation whose clock read failed has exited.
C7_Witness ==
    /\ pc = "exited"
    /\ ReadFailed
    /\ exit_status = Some(1)

\* C8: no step changes the files, the environment or the network
\* connections, and every invocation starts as the first one did: nothing
\* written, no local value, the host as it was.
C8_OnlyStandardOutput ==
    /\ [][files' = files /\ environ' = environ /\ sockets' = sockets]_vars
    /\ [](pc = "start" =>
            /\ stdout = <<>> /\ stderr = <<>>
            /\ now = None /\ current_date = None /\ exit_status = None
            /\ reads = 0
            /\ files = {} /\ environ = {} /\ sockets = {})

\* A second invocation starts after one that printed both lines.
C8_Witness ==
    /\ run = 2
    /\ pc = "start"
    /\ prev_stdout # None
    /\ Len(Lines(prev_stdout[1])) = 2

\* C9: the clock is read at most once and never before the greeting is
\* written; the value read is formatted before anything more is written;
\* the second line carries the formatted value of that read; an invocation
\* that has exited has read the clock once.
C9_ReadOnceInOrder ==
    /\ reads <= 1
    /\ reads = 1 => Lines(stdout) # <<>> /\ Lines(stdout)[1] = ExpectedGreeting
    /\ now # None => current_date = None /\ Len(Lines(stdout)) = 1
    /\ current_date # None =>
          /\ ReadSucceeded
          /\ MatchesPattern(current_date)
          /\ InstantOf(Fields(current_date)) = read_clock[1]
    /\ Len(Lines(stdout)) >= 2 =>
          /\ reads = 1
          /\ current_date # None
          /\ Timestamp(stdout) = Some(current_date)
    /\ pc = "exited" => reads = 1

\* The second line is out, and the clock has since left the value read.
C9_Witness ==
    /\ pc = "exited"
    /\ reads = 1
    /\ ReadSucceeded
    /\ Reported(stdout) = read_clock
    /\ clock # read_clock[1]

\* C10: an invocation whose clock read failed has, when it has exited,
\* written the greeting line and nothing else.
C10_FailedRunWroteGreeting ==
    (pc = "exited" /\ ReadFailed) =>
        /\ Lines(stdout) = <<ExpectedGreeting>>
        /\ Unterminated(stdout) = <<>>

\* A failed invocation has exited with the greeting on standard output.
C10_Witness ==
    /\ pc = "exited"
    /\ ReadFailed
    /\ stderr # <<>>
    /\ Len(Lines(stdout)) = 1

====
